---- MODULE Spec2Model ----
(***************************************************************************)
(* AbstractFeatureGenerator (generators/abstract.py) and                   *)
(* TextSpecialFeatureGenerator (generators/text_special.py).               *)
(*                                                                         *)
(* Three specifications over one set of variables:                         *)
(*   Spec       the fit_transform / transform lifecycle of one generator   *)
(*              object whose fields hold what the two __init__ bodies      *)
(*              assign (abstract.py 14-17, text_special.py 37-39);         *)
(*   SpecValues _generate_text_special and the static statistic helpers    *)
(*              applied to bounded Series of values;                       *)
(*   SpecInit   the constructor call TextSpecialFeatureGenerator(...),     *)
(*              with the keyword binding of super().__init__.              *)
(***************************************************************************)
EXTENDS Integers, Sequences, FiniteSets, TLC

\* ------------------------------------------------------------------ bounds

\* Longest string of the exhaustively enumerated values (SpecValues).
MaxLen == 2
\* Cap of the counter of completed fit_transform calls.
MaxFits == 2

\* ------------------------------------------------------- Python values

\* A Python value carries its type; a str is its sequence of characters, a
\* float the reduced fraction n/d (d = 0: nan when n = 0, inf otherwise).
PyNone == [type |-> "NoneType"]
PyStr(chars) == [type |-> "str", chars |-> chars]
PyInt(n) == [type |-> "int", n |-> n]
RECURSIVE Gcd(_, _)
Gcd(a, b) == IF b = 0 THEN a ELSE Gcd(b, a % b)
PyFloat(n, d) ==
    IF d = 0 THEN [type |-> "float", n |-> IF n = 0 THEN 0 ELSE 1, d |-> 0]
    ELSE [type |-> "float", n |-> n \div Gcd(n, d), d |-> d \div Gcd(n, d)]
NaN == PyFloat(0, 0)
\* Python's a / b on two ints, where b # 0.
TrueDiv(a, b) == PyFloat(a, b)
\* numpy's float64 division of two int columns' elements: x/0 is inf, 0/0 nan.
NumpyDiv(a, b) == PyFloat(a.n, b.n)

\* --------------------------------------------------- character classes

\* The characters of the model's strings, by what Python says of them; the
\* others used ('!', '?', '@', ...) are in none of the classes.
\* c.isupper()
UpperChars == {"H", "W", "A"}
\* c.islower()
LowerChars == {"e", "l", "o", "r", "d", "a", "b", "c"}
\* c.isdigit()
DigitChars == {"1", "2", "3"}
\* The characters str.split() splits on.
WhitespaceChars == {" ", "\t"}
\* The regex class \w: alphanumeric or underscore.
WordChars == UpperChars \cup LowerChars \cup DigitChars \cup {"_"}

\* ------------------------------------------------------ str operations

RECURSIVE Count(_, _)
\* sum(1 for c in string if P(c)), P given as the set of characters it accepts.
Count(string, accepted) ==
    IF string = <<>> THEN 0
    ELSE (IF Head(string) \in accepted THEN 1 ELSE 0) + Count(Tail(string), accepted)

RECURSIVE Remove(_, _)
\* string with every character of `removed` taken out.
Remove(string, removed) ==
    IF string = <<>> THEN <<>>
    ELSE IF Head(string) \in removed THEN Remove(Tail(string), removed)
    ELSE <<Head(string)>> \o Remove(Tail(string), removed)

\* string.replace(' ', '')
ReplaceSpaces(string) == Remove(string, {" "})

\* re.sub(r'[\w]+', '', string)
ReSubWord(string) == Remove(string, WordChars)

RECURSIVE SplitFrom(_, _)
\* string.split(): `token` is the token being read (<<>> between tokens).
SplitFrom(string, token) ==
    IF string = <<>> THEN (IF token = <<>> THEN <<>> ELSE <<token>>)
    ELSE IF Head(string) \in WhitespaceChars
         THEN (IF token = <<>> THEN <<>> ELSE <<token>>) \o SplitFrom(Tail(string), <<>>)
         ELSE SplitFrom(Tail(string), Append(token, Head(string)))
split(string) == SplitFrom(string, <<>>)

\* ------------------------------------------- the static statistic helpers
\* Each takes a Python value; len(), .split() and .replace() exist on a str
\* only, so the callers below test the type first (Raises).

word_count(value) == PyInt(Len(split(value.chars)))

char_count(value) == PyInt(Len(value.chars))

special_ratio(value) ==
    LET string == ReplaceSpaces(value.chars)
    IN  IF string = <<>> THEN PyInt(0)
        ELSE TrueDiv(Len(ReSubWord(string)), Len(string))

digit_ratio(value) ==
    LET string == ReplaceSpaces(value.chars)
    IN  IF string = <<>> THEN PyInt(0)
        ELSE TrueDiv(Count(string, DigitChars), Len(string))

lower_ratio(value) ==
    LET string == ReplaceSpaces(value.chars)
    IN  IF string = <<>> THEN PyInt(0)
        ELSE TrueDiv(Count(string, LowerChars), Len(string))

\* Mutant of capital_ratio: the ratio over the string with its spaces.
capital_ratio_unstripped(value) ==
    IF ReplaceSpaces(value.chars) = <<>> THEN PyInt(0)
    ELSE TrueDiv(Count(value.chars, UpperChars), Len(value.chars))

capital_ratio(value) ==
    LET string == ReplaceSpaces(value.chars)
    IN  IF string = <<>> THEN PyInt(0)
        ELSE TrueDiv(Count(string, UpperChars), Len(string))

symbol_in_string_count(value, character) ==
    IF value.chars = <<>> THEN PyInt(0)
    ELSE PyInt(Count(value.chars, {character}))

\* ------------------------------------------------------- lists and frames

PyList(items) == [type |-> "list", items |-> items]
\* bool(v) of a field that holds None or a list: `if self.features_in:`.
Truthy(v) == v.type = "list" /\ v.items # <<>>

\* A column name is the sequence of the string pieces `+` joined:
\* 'text' + '.char_count' is <<"text", ".char_count">>.
Name(string) == <<string>>

\* A DataFrame: column names, row labels, and one sequence of values per column.
DataFrame(columns, index, data) ==
    [type |-> "DataFrame", columns |-> columns, index |-> index, data |-> data]
\* A Series: one column of a frame with the frame's row labels.
Series(index, values) == [type |-> "Series", index |-> index, values |-> values]

\* DataFrame(index=X.index)
EmptyFrame(index) == DataFrame(<<>>, index, <<>>)

\* The position of column `name` in df (0 when df has no such column).
Position(df, name) ==
    IF \E i \in 1..Len(df.columns) : df.columns[i] = name
    THEN CHOOSE i \in 1..Len(df.columns) :
             /\ df.columns[i] = name
             /\ \A j \in 1..(i - 1) : df.columns[j] # name
    ELSE 0

\* X[name], for a column name X holds.
GetItem(X, name) == Series(X.index, X.data[Position(X, name)])

\* X[key] raises KeyError when key is None or a list with a name X lacks.
GetItemsRaises(X, key) ==
    \/ key.type # "list"
    \/ \E i \in 1..Len(key.items) : Position(X, key.items[i]) = 0

\* X[names], names a list: the named columns in the list's order, same rows.
GetItems(X, names) ==
    DataFrame(names, X.index, [i \in 1..Len(names) |-> X.data[Position(X, names[i])]])

\* A Python list stored as a column: numpy makes a float column of ints and
\* floats mixed.
ToColumn(values) ==
    IF \E i \in 1..Len(values) : values[i].type = "float"
    THEN [i \in 1..Len(values) |->
             IF values[i].type = "int" THEN PyFloat(values[i].n, 1) ELSE values[i]]
    ELSE values

\* df[name] = values, statement after statement, on a frame DataFrame(index=
\* ...) without columns: statement k assigns values(k) to names[k]. A name
\* assigned again keeps its place and takes the later values; a new name is
\* added last.
SetItems(index, names, values(_)) ==
    LET n == Len(names)
        first == {k \in 1..n : \A j \in 1..(k - 1) : names[j] # names[k]}
        last(k) == CHOOSE m \in k..n :
                       /\ names[m] = names[k]
                       /\ \A j \in (m + 1)..n : names[j] # names[k]
        at(i) == CHOOSE k \in first : Cardinality({j \in first : j <= k}) = i
    IN  DataFrame([i \in 1..Cardinality(first) |-> names[at(i)]],
                  index,
                  [i \in 1..Cardinality(first) |-> ToColumn(values(last(at(i))))])

\* a / b on two columns of one frame, element by element.
SeriesDiv(a, b) == [i \in 1..Len(a) |-> NumpyDiv(a[i], b[i])]

\* Mutant of fillna: the fill does not reach the frame's column.
fillna_not_inplace(column) == column

\* column.fillna(0, inplace=True)
fillna(column) ==
    [i \in 1..Len(column) |-> IF column[i] = NaN THEN PyFloat(0, 1) ELSE column[i]]

RECURSIVE Concat(_, _)
\* pd.concat(frames, axis=1) of frames that share `index`.
Concat(frames, index) ==
    IF frames = <<>> THEN EmptyFrame(index)
    ELSE LET rest == Concat(Tail(frames), index)
         IN  DataFrame(Head(frames).columns \o rest.columns, index,
                       Head(frames).data \o rest.data)

\* list(X.columns)
Columns(X) == PyList(X.columns)

\* --------------------------------------------- TextSpecialFeatureGenerator

\* The default of `symbols`.
DefaultSymbols ==
    <<"!", "?", "@", "%", "$", "*", "&", "#", "^", ".", ":", " ", "/", ";", "-", "=">>

\* S_TEXT_SPECIAL of ..feature_metadata, as the class docstring names it.
S_TEXT_SPECIAL == "text_special"

\* [f(value) for value in X] raises TypeError on a value that is no str
\* (len(None), None.split()); the first list built is char_count's.
ValuesRaise(X) == \E i \in 1..Len(X.values) : X.values[i].type # "str"

\* The list a comprehension [f(value) for value in X] builds.
ListOf(f(_), X) == [i \in 1..Len(X.values) |-> f(X.values[i])]

\* Lines 70-75: the names of the six statistics' columns, in the order assigned.
FixedNames(feature) ==
    <<feature \o <<".char_count">>, feature \o <<".word_count">>,
      feature \o <<".capital_ratio">>, feature \o <<".lower_ratio">>,
      feature \o <<".digit_ratio">>, feature \o <<".special_ratio">>>>

\* Lines 70-75: the list assigned to the k-th of them.
FixedValues(X, k) ==
    CASE k = 1 -> ListOf(char_count, X)
      [] k = 2 -> ListOf(word_count, X)
      [] k = 3 -> ListOf(capital_ratio, X)
      [] k = 4 -> ListOf(lower_ratio, X)
      [] k = 5 -> ListOf(digit_ratio, X)
      [] k = 6 -> ListOf(special_ratio, X)

\* Line 78: the count column of one symbol.
SymbolCount(X, symbol) ==
    LET count(value) == symbol_in_string_count(value, symbol)
    IN  ToColumn(ListOf(count, X))

\* Lines 79-80: the ratio column of one symbol, the count column over the
\* char_count column, nan filled with 0.
SymbolRatio(X, symbol) ==
    fillna(SeriesDiv(SymbolCount(X, symbol), ToColumn(ListOf(char_count, X))))

\* Mutant of SymbolNames: all the count columns, then all the ratio columns.
SymbolNamesCountsFirst(feature, symbols) ==
    [k \in 1..(2 * Len(symbols)) |->
        IF k <= Len(symbols) THEN feature \o <<".symbol_count.", symbols[k]>>
        ELSE feature \o <<".symbol_ratio.", symbols[k - Len(symbols)]>>]

\* Lines 77-80: the names the loop assigns, per symbol the count column's and
\* then the ratio column's.
SymbolNames(feature, symbols) ==
    [k \in 1..(2 * Len(symbols)) |->
        IF k % 2 = 1 THEN feature \o <<".symbol_count.", symbols[(k + 1) \div 2]>>
        ELSE feature \o <<".symbol_ratio.", symbols[k \div 2]>>]

\* Lines 77-80: what the loop's k-th assignment assigns.
SymbolValues(X, symbols, k) ==
    IF k % 2 = 1 THEN SymbolCount(X, symbols[(k + 1) \div 2])
    ELSE SymbolRatio(X, symbols[k \div 2])

\* _generate_text_special(self, X: Series, feature), when no value raises.
_generate_text_special(self, X, feature) ==
    LET values(k) == IF k <= 6 THEN FixedValues(X, k)
                     ELSE SymbolValues(X, self._symbols.items, k - 6)
    IN  SetItems(X.index,
                 FixedNames(feature) \o SymbolNames(feature, self._symbols.items),
                 values)

\* _generate_features_text_special raises: a configured column X lacks
\* (KeyError), or a value that is no str (TypeError).
GenerateFeaturesRaises(self, X) ==
    IF ~Truthy(self.features_in) THEN ""
    ELSE IF GetItemsRaises(X, self.features_in) THEN "KeyError"
    ELSE IF \E i \in 1..Len(self.features_in.items) :
                ValuesRaise(GetItem(X, self.features_in.items[i]))
         THEN "TypeError"
    ELSE ""

\* _generate_features_text_special(self, X), when nothing raises.
_generate_features_text_special(self, X) ==
    IF Truthy(self.features_in)
    THEN Concat([i \in 1..Len(self.features_in.items) |->
                    _generate_text_special(self,
                        GetItem(X, self.features_in.items[i]),
                        self.features_in.items[i])],
                X.index)
    ELSE EmptyFrame(X.index)

\* _transform(self, X)
_transform(self, X) == _generate_features_text_special(self, X)

\* _fit_transform(self, X): the output and the special type groups.
_fit_transform(self, X) ==
    LET X_out == _transform(self, X)
    IN  [X_out |-> X_out,
         type_family_groups_special |-> (S_TEXT_SPECIAL :> Columns(X_out))]

\* ------------------------------------------------- AbstractFeatureGenerator

\* get_type_family_groups_df of ..types: the raw type groups of a frame,
\* kept as the application itself.
get_type_family_groups_df(X_out) == [of |-> X_out]

\* FeatureTypesMetadata(feature_types_raw=..., feature_types_special=...)
FeatureTypesMetadata(feature_types_raw, feature_types_special) ==
    [type |-> "FeatureTypesMetadata",
     feature_types_raw |-> feature_types_raw,
     feature_types_special |-> feature_types_special]

\* The fields AbstractFeatureGenerator.__init__ assigns.
AbstractInit(features_in) ==
    [type |-> "TextSpecialFeatureGenerator",
     _is_fit |-> FALSE,
     feature_types_metadata |-> PyNone,
     features_in |-> features_in,
     features_out |-> PyNone]

\* The fields after TextSpecialFeatureGenerator.__init__'s lines 37-39.
TextSpecialInit(base, symbols) ==
    [type |-> base.type,
     _is_fit |-> base._is_fit,
     feature_types_metadata |-> base.feature_types_metadata,
     features_in |-> base.features_in,
     features_out |-> base.features_out,
     _symbols |-> IF symbols = PyNone THEN PyList(DefaultSymbols) ELSE symbols]

VARIABLES
    self,       \* the generator object: its fields
    call,       \* the last call made: its arguments and how it ended
    fit_call,   \* history: the fit_transform call that completed
    memo,       \* history: one earlier transform call that returned
    fit_count,  \* history: how many fit_transform calls completed
    features_in_arg  \* history: the features_in the constructor was given

vars == <<self, call, fit_call, memo, fit_count, features_in_arg>>

NoCall == [op |-> "none", X |-> PyNone, arg |-> PyNone, raised |-> "", ret |-> PyNone]
Raised(op, X, arg, error) ==
    [op |-> op, X |-> X, arg |-> arg, raised |-> error, ret |-> PyNone]
Returned(op, X, arg, ret) ==
    [op |-> op, X |-> X, arg |-> arg, raised |-> "", ret |-> ret]
NoFit == [X |-> PyNone, ret |-> PyNone]
\* `between`: a transform of another table has returned since the call kept.
NoMemo == [X |-> PyNone, ret |-> PyNone, between |-> FALSE]
Keep(X, ret) == [X |-> X, ret |-> ret, between |-> FALSE]
Later(kept, X) ==
    IF kept # NoMemo /\ kept.X # X THEN [kept EXCEPT !.between = TRUE] ELSE kept

AlreadyFit == "AssertionError: FeatureGenerator is already fit."
NotFit == "AssertionError: FeatureGenerator is not fit."

\* Mutant of FitGuard: fit_transform without the check of line 23.
FitGuardMissing(obj) == FALSE

\* The check of line 23: fit_transform raises when it holds.
FitGuard(obj) == obj._is_fit

\* Mutant of InferFeaturesIn: features_in taken from X at every fit_transform.
InferFeaturesInAlways(obj, X) == [obj EXCEPT !.features_in = Columns(X)]

\* self after lines 25-26 of fit_transform.
InferFeaturesIn(obj, X) ==
    IF obj.features_in = PyNone THEN [obj EXCEPT !.features_in = Columns(X)] ELSE obj

\* Mutant of StoreFit: line 31 left out.
StoreFitNoFlag(obj, X_out, type_family_groups_special) ==
    [obj EXCEPT
        !.features_out = Columns(X_out),
        !.feature_types_metadata =
            FeatureTypesMetadata(get_type_family_groups_df(X_out),
                                 type_family_groups_special)]

\* Mutant of StoreFit: features_out taken from the input columns.
StoreFitInputColumns(obj, X_out, type_family_groups_special) ==
    [obj EXCEPT
        !.features_out = obj.features_in,
        !.feature_types_metadata =
            FeatureTypesMetadata(get_type_family_groups_df(X_out),
                                 type_family_groups_special),
        !._is_fit = TRUE]

\* self after lines 28-31 of fit_transform.
StoreFit(obj, X_out, type_family_groups_special) ==
    [obj EXCEPT
        !.features_out = Columns(X_out),
        !.feature_types_metadata =
            FeatureTypesMetadata(get_type_family_groups_df(X_out),
                                 type_family_groups_special),
        !._is_fit = TRUE]

\* The table fit_transform and transform hand to the delegated step.
Selected(obj, X) == GetItems(X, obj.features_in.items)

\* How fit_transform(X) ends on obj: what it raises or returns.
FitOutcome(obj, X) ==
    IF FitGuard(obj) THEN Raised("fit_transform", X, PyNone, AlreadyFit)
    ELSE LET self1 == InferFeaturesIn(obj, X)
         IN  IF GetItemsRaises(X, self1.features_in)
             THEN Raised("fit_transform", X, PyNone, "KeyError")
             ELSE IF GenerateFeaturesRaises(self1, Selected(self1, X)) # ""
             THEN Raised("fit_transform", X, Selected(self1, X),
                         GenerateFeaturesRaises(self1, Selected(self1, X)))
             ELSE Returned("fit_transform", X, Selected(self1, X),
                           _fit_transform(self1, Selected(self1, X)).X_out)

\* Mutant of FitEffect: a fit_transform that raises restores features_in.
FitEffectRollback(obj, X) ==
    IF FitGuard(obj) \/ FitOutcome(obj, X).raised # "" THEN obj
    ELSE LET self1 == InferFeaturesIn(obj, X)
             res == _fit_transform(self1, Selected(self1, X))
         IN  StoreFit(self1, res.X_out, res.type_family_groups_special)

\* self as fit_transform(X) leaves it.
FitEffect(obj, X) ==
    IF FitGuard(obj) THEN obj
    ELSE LET self1 == InferFeaturesIn(obj, X)
         IN  IF FitOutcome(obj, X).raised # "" THEN self1
             ELSE LET res == _fit_transform(self1, Selected(self1, X))
                  IN  StoreFit(self1, res.X_out, res.type_family_groups_special)

\* AbstractFeatureGenerator.fit_transform(self, X)
fit_transform(X) ==
    /\ fit_count < MaxFits
    /\ call' = FitOutcome(self, X)
    /\ self' = FitEffect(self, X)
    /\ IF call'.raised = ""
       THEN /\ fit_call' = [X |-> X, ret |-> call'.ret]
            /\ fit_count' = fit_count + 1
       ELSE UNCHANGED <<fit_call, fit_count>>
    /\ UNCHANGED <<memo, features_in_arg>>

\* The check of line 35: transform raises when it holds.
TransformGuard(obj) == ~obj._is_fit

\* How transform(X) ends on obj: what it raises or returns.
TransformOutcome(obj, X) ==
    IF TransformGuard(obj) THEN Raised("transform", X, PyNone, NotFit)
    ELSE IF GetItemsRaises(X, obj.features_in)
    THEN Raised("transform", X, PyNone, "KeyError")
    ELSE IF GenerateFeaturesRaises(obj, Selected(obj, X)) # ""
    THEN Raised("transform", X, Selected(obj, X),
                GenerateFeaturesRaises(obj, Selected(obj, X)))
    ELSE Returned("transform", X, Selected(obj, X), _transform(obj, Selected(obj, X)))

\* Mutant of transform: features_in assigned from X as fit_transform does.
transform_refits(X) ==
    /\ call' = TransformOutcome(self, X)
    /\ self' = IF call'.raised = "" THEN [self EXCEPT !.features_in = Columns(X)]
               ELSE self
    /\ memo' \in IF call'.raised = "" THEN {Later(memo, X), Keep(X, call'.ret)}
                 ELSE {memo}
    /\ UNCHANGED <<fit_call, fit_count, features_in_arg>>

\* AbstractFeatureGenerator.transform(self, X); the history may keep the call.
transform(X) ==
    /\ call' = TransformOutcome(self, X)
    /\ memo' \in IF call'.raised = "" THEN {Later(memo, X), Keep(X, call'.ret)}
                 ELSE {memo}
    /\ UNCHANGED <<self, fit_call, fit_count, features_in_arg>>

\* ------------------------------------------------------------- the inputs

Hello == PyStr(<<"H", "e", "l", "l", "o", " ", "W", "o", "r", "l", "d", "!">>)
Empty == PyStr(<<>>)
Abc123 == PyStr(<<"a", "b", "c", "1", "2", "3">>)

\* The features_in a generator is configured with.
FeaturesInArgs ==
    {PyNone, PyList(<<>>), PyList(<<Name("text")>>),
     PyList(<<Name("text"), Name("note")>>)}

\* The symbols a generator is configured with (None: the default).
SymbolArgs ==
    {PyNone, PyList(<<>>), PyList(<<"!", "a">>), PyList(<<"!", "!">>),
     PyList(<<" ", "_", "!">>), PyList(<<"a", "!", "a">>)}

\* The symbol lists of the generators whose lifecycle Spec follows.
LifecycleSymbols ==
    {PyList(<<>>), PyList(<<"!", "a">>), PyList(<<"a", "!", "a">>)}

ExampleTable ==
    DataFrame(<<Name("text")>>, <<0, 1, 2>>, <<<<Hello, Empty, Abc123>>>>)

\* The tables the calls of Spec pass.
Tables ==
    {ExampleTable,
     DataFrame(<<Name("text"), Name("note")>>, <<1, 0>>,
               <<<<PyStr(<<"A", " ", "b">>), PyStr(<<" ">>)>>,
                 <<PyStr(<<"b", "!">>), PyStr(<<"1", "_">>)>>>>),
     DataFrame(<<Name("note"), Name("text")>>, <<0>>,
               <<<<PyStr(<<"!", "\t", "a">>)>>, <<PyStr(<<"A", "b">>)>>>>),
     DataFrame(<<Name("text"), Name("note")>>, <<0>>,
               <<<<PyStr(<<"A", "b">>)>>, <<PyNone>>>>),
     DataFrame(<<Name("text")>>, <<0, 1>>, <<<<PyStr(<<"a">>), PyNone>>>>),
     DataFrame(<<Name("id")>>, <<0>>, <<<<PyStr(<<"1", "2">>)>>>>),
     DataFrame(<<Name("text")>>, <<>>, <<<<>>>>),
     DataFrame(<<>>, <<0>>, <<>>)}

\* ------------------------------------------------------------------- Spec

\* A generator as the two __init__ bodies leave it.
Init ==
    /\ features_in_arg \in FeaturesInArgs
    /\ self \in {TextSpecialInit(AbstractInit(features_in_arg), s) :
                    s \in LifecycleSymbols}
    /\ call = NoCall
    /\ fit_call = NoFit
    /\ memo = NoMemo
    /\ fit_count = 0

Next ==
    \/ \E X \in Tables : fit_transform(X)
    \/ \E X \in Tables : transform(X)

Spec == Init /\ [][Next]_vars

\* ------------------------------------------------------------- SpecValues

\* The characters of the exhaustively enumerated strings.
BoundedAlphabet == {"A", "b", "1", "_", "!", " ", "\t"}
BoundedStrings == UNION {[1..n -> BoundedAlphabet] : n \in 0..MaxLen}

\* The Series _generate_text_special is applied to: every bounded string as a
\* one-row Series, the three-row example, no row, and a row that is no str.
SeriesInputs ==
    {Series(<<0>>, <<PyStr(string)>>) : string \in BoundedStrings}
        \cup {Series(<<0, 1, 2>>, <<Hello, Empty, Abc123>>),
              Series(<<>>, <<>>),
              Series(<<0, 1>>, <<PyStr(<<"a">>), PyNone>>)}

\* A call self._generate_text_special(X, feature) about to be made.
Pending(X, feature) ==
    [op |-> "_generate_text_special", X |-> X, arg |-> [feature |-> feature],
     raised |-> "(pending)", ret |-> PyNone]

InitValues ==
    /\ features_in_arg = PyList(<<Name("text")>>)
    /\ self \in {TextSpecialInit(AbstractInit(features_in_arg), s) : s \in SymbolArgs}
    /\ call \in {Pending(X, Name("text")) : X \in SeriesInputs}
    /\ fit_call = NoFit
    /\ memo = NoMemo
    /\ fit_count = 0

\* The call self._generate_text_special(X, feature).
generate_text_special_call ==
    /\ call.raised = "(pending)"
    /\ call' = [call EXCEPT
                   !.raised = IF ValuesRaise(call.X) THEN "TypeError" ELSE "",
                   !.ret = IF ValuesRaise(call.X) THEN PyNone
                           ELSE _generate_text_special(self, call.X, call.arg.feature)]
    /\ UNCHANGED <<self, fit_call, memo, fit_count, features_in_arg>>

NextValues == generate_text_special_call

SpecValues == InitValues /\ [][NextValues]_vars

\* --------------------------------------------------------------- SpecInit

\* No generator object: the constructor has not returned one.
NoObject == [type |-> "NoObject"]

\* The parameters AbstractFeatureGenerator.__init__ declares besides self.
AbstractInitParameters == {"features_in"}

\* **kwargs without a keyword.
NoKwargs == [k \in {} |-> PyNone]
KwargsArgs == {NoKwargs} \cup {[features_in |-> f] : f \in FeaturesInArgs}

\* TextSpecialFeatureGenerator.__init__: line 36 passes post_drop_duplicates
\* and **kwargs on by keyword, and a keyword the base __init__ does not
\* declare is a TypeError; line 41 reads self._post_generators, which no line
\* of the base __init__ assigns.
InitOutcome(symbols, bin_features, post_drop_duplicates, kwargs) ==
    LET keywords == {"post_drop_duplicates"} \cup DOMAIN kwargs
    IN  IF ~(keywords \subseteq AbstractInitParameters)
        THEN [raised |-> "TypeError", obj |-> NoObject]
        ELSE IF bin_features
        THEN [raised |-> "AttributeError", obj |-> NoObject]
        ELSE [raised |-> "",
              obj |-> TextSpecialInit(
                          AbstractInit(IF "features_in" \in DOMAIN kwargs
                                       THEN kwargs.features_in ELSE PyNone),
                          symbols)]

\* The call TextSpecialFeatureGenerator(symbols=..., bin_features=...,
\* post_drop_duplicates=..., **kwargs).
construct(symbols, bin_features, post_drop_duplicates, kwargs) ==
    LET args == [symbols |-> symbols, bin_features |-> bin_features,
                 post_drop_duplicates |-> post_drop_duplicates, kwargs |-> kwargs]
        out == InitOutcome(symbols, bin_features, post_drop_duplicates, kwargs)
    IN  /\ call' = [op |-> "__init__", X |-> args, arg |-> PyNone,
                    raised |-> out.raised, ret |-> PyNone]
        /\ self' = out.obj
        /\ features_in_arg' = IF "features_in" \in DOMAIN kwargs
                              THEN kwargs.features_in ELSE PyNone
        /\ UNCHANGED <<fit_call, memo, fit_count>>

InitInit ==
    /\ features_in_arg = PyNone
    /\ self = NoObject
    /\ call = NoCall
    /\ fit_call = NoFit
    /\ memo = NoMemo
    /\ fit_count = 0

NextInit ==
    \E symbols \in SymbolArgs, bin_features \in BOOLEAN,
       post_drop_duplicates \in BOOLEAN, kwargs \in KwargsArgs :
        construct(symbols, bin_features, post_drop_duplicates, kwargs)

SpecInit == InitInit /\ [][NextInit]_vars

\* ------------------------------------------------------------- properties

\* In a step of Spec that changes a variable, call' is what the step's call
\* came to: every action assigns call.
FitTransformReturned == call.op = "fit_transform" /\ call.raised = ""
TransformReturned == call.op = "transform" /\ call.raised = ""

\* The fields of a generator the claims name.
Fitted(obj) ==
    <<obj._is_fit, obj.features_in, obj.features_out, obj.feature_types_metadata>>

\* C1. Misuse detection: fit_transform on a generator that is already fit
\* raises the already-fit AssertionError, transform on a generator never fit
\* raises the not-fit AssertionError, and either failing call leaves the
\* fitted flag, features_in, features_out and the metadata as they were.
C1_MisuseDetection ==
    [][/\ (self._is_fit /\ call'.op = "fit_transform")
            => (call'.raised = AlreadyFit /\ Fitted(self') = Fitted(self))
       /\ (~self._is_fit /\ call'.op = "transform")
            => (call'.raised = NotFit /\ Fitted(self') = Fitted(self))]_vars

\* A second fit_transform has been refused on a generator that stays fit.
C1_Witness ==
    /\ call.op = "fit_transform"
    /\ call.raised = AlreadyFit
    /\ self._is_fit
    /\ fit_count = 1

\* C2. Lifecycle: the generator is Fit exactly when one fit_transform has
\* completed; it becomes Fit only in a fit_transform step that returns, never
\* leaves Fit, so at most one fit_transform ever completes; and once Fit no
\* step changes features_in, features_out or the metadata.
C2_Lifecycle ==
    /\ [](fit_count <= 1 /\ (self._is_fit <=> fit_count = 1))
    /\ [][/\ self._is_fit => (self'._is_fit /\ Fitted(self') = Fitted(self))
          /\ (~self._is_fit /\ self'._is_fit)
                => (call'.op = "fit_transform" /\ call'.raised = ""
                    /\ fit_count' = fit_count + 1)
          /\ (call'.op = "fit_transform" /\ call'.raised = "" /\ call' # call)
                => (~self._is_fit /\ self'._is_fit)]_vars

\* A transform has returned on a generator that one fit_transform made Fit.
C2_Witness ==
    /\ TransformReturned
    /\ self._is_fit
    /\ fit_count = 1
    /\ self.features_out = PyList(fit_call.ret.columns)

\* The names of the six statistics in the order the specification lists them.
StatisticSuffixes ==
    <<".char_count", ".word_count", ".capital_ratio", ".lower_ratio",
      ".digit_ratio", ".special_ratio">>

\* The p-th column name of the stated layout: input-column-major, per input
\* column the six statistics, then per symbol its count and its ratio.
ExpectedName(features, symbols, p) ==
    LET width == 6 + 2 * Len(symbols)
        feature == features[((p - 1) \div width) + 1]
        r == (p - 1) % width
    IN  IF r < 6 THEN feature \o <<StatisticSuffixes[r + 1]>>
        ELSE IF (r - 6) % 2 = 0
        THEN feature \o <<".symbol_count.", symbols[((r - 6) \div 2) + 1]>>
        ELSE feature \o <<".symbol_ratio.", symbols[((r - 6) \div 2) + 1]>>

ExpectedColumns(features, symbols) ==
    [p \in 1..(Len(features) * (6 + 2 * Len(symbols))) |->
        ExpectedName(features, symbols, p)]

\* seq without the later occurrences of an entry that occurs before.
FirstOccurrences(seq) ==
    LET keep == {k \in 1..Len(seq) : \A j \in 1..(k - 1) : seq[j] # seq[k]}
    IN  [i \in 1..Cardinality(keep) |->
            seq[CHOOSE k \in keep : Cardinality({j \in keep : j <= k}) = i]]

\* C3 as stated: the table a fit_transform or transform returns has the
\* input's row index and exactly the N*(6+2S) columns of the stated layout,
\* for the N input columns and the S symbols of the generator.
C3_OutputShape_Original ==
    (FitTransformReturned \/ TransformReturned)
        => /\ call.ret.index = call.X.index
           /\ Len(call.ret.columns)
                = Len(self.features_in.items) * (6 + 2 * Len(self._symbols.items))
           /\ call.ret.columns
                = ExpectedColumns(self.features_in.items, self._symbols.items)

\* C3 amended: the same, with S the number of distinct symbols: a symbol
\* that occurs again in the list has its two columns once, where it first
\* occurs.
C3_OutputShape ==
    (FitTransformReturned \/ TransformReturned)
        => /\ call.ret.index = call.X.index
           /\ Len(call.ret.data) = Len(call.ret.columns)
           /\ \A c \in 1..Len(call.ret.data) :
                  Len(call.ret.data[c]) = Len(call.X.index)
           /\ call.ret.columns
                = ExpectedColumns(self.features_in.items,
                                  FirstOccurrences(self._symbols.items))

\* A transform has returned the columns of two input columns and a list of
\* three symbols, one of them twice, for rows whose labels are not in order.
C3_Witness ==
    /\ TransformReturned
    /\ Len(self.features_in.items) = 2
    /\ self._symbols.items = <<"a", "!", "a">>
    /\ call.X.index = <<1, 0>>
    /\ Len(call.ret.columns) = 20

\* C4. Idempotence of transform: a transform of a table returns the table
\* an earlier transform of the same table returned, whatever transforms of
\* other tables came between.
C4_TransformIdempotent ==
    (TransformReturned /\ memo.X = call.X) => call.ret = memo.ret

\* A table is transformed again after a transform of another table.
C4_Witness ==
    /\ TransformReturned
    /\ memo.X = call.X
    /\ memo.between
    /\ Len(call.ret.columns) > 0

GenerateReturned == call.op = "_generate_text_special" /\ call.raised = ""

\* v is neither nan nor inf.
IsFinite(v) == v.type = "int" \/ (v.type = "float" /\ v.d # 0)
\* v == 0 in Python: the int 0 and the float 0.0 are equal.
IsZero(v) == v = PyInt(0) \/ v = PyFloat(0, 1)

\* The column of df named `name`.
ColumnOf(df, name) ==
    df.data[CHOOSE c \in 1..Len(df.columns) : df.columns[c] = name]

\* v is the number n/d; n/0 stands for the fallback 0.
IsRatio(v, n, d) ==
    IF d = 0 THEN IsZero(v)
    ELSE IF v.type = "int" THEN v.n * d = n
    ELSE v.d # 0 /\ v.n * d = n * v.d

\* C5. Zero fallback: in the frame _generate_text_special returns, a value
\* that is empty once its spaces are removed has capital_ratio, lower_ratio,
\* digit_ratio and special_ratio 0; a value of char_count 0 has symbol_count
\* and symbol_ratio 0 for every symbol; and no ratio is nan or inf.
C5_ZeroFallback ==
    GenerateReturned =>
        \A i \in 1..Len(call.X.values) :
            LET chars == call.X.values[i].chars
                cell(suffix) == ColumnOf(call.ret, call.arg.feature \o suffix)[i]
                ratios == {<<".capital_ratio">>, <<".lower_ratio">>,
                           <<".digit_ratio">>, <<".special_ratio">>}
                symbols == {self._symbols.items[k] : k \in 1..Len(self._symbols.items)}
            IN  /\ (\A j \in 1..Len(chars) : chars[j] = " ")
                        => \A suffix \in ratios : IsZero(cell(suffix))
                /\ Len(chars) = 0
                        => \A symbol \in symbols :
                               /\ IsZero(cell(<<".symbol_count.", symbol>>))
                               /\ IsZero(cell(<<".symbol_ratio.", symbol>>))
                /\ \A suffix \in ratios : IsFinite(cell(suffix))
                /\ \A symbol \in symbols : IsFinite(cell(<<".symbol_ratio.", symbol>>))

\* The example, with its empty second value, has gone through the default
\* sixteen symbols.
C5_Witness ==
    /\ GenerateReturned
    /\ call.X = Series(<<0, 1, 2>>, <<Hello, Empty, Abc123>>)
    /\ self._symbols.items = DefaultSymbols
    /\ ColumnOf(call.ret, <<"text", ".symbol_ratio.", "!">>)[2] = PyFloat(0, 1)

\* C6. End-to-end values: for text = ["Hello World!", "", "abc123"] and
\* symbols ['!', 'a'], row 0 has char_count 12, word_count 2, capital_ratio
\* 2/11, symbol_count.! 1, symbol_ratio.! 1/12 and row 1 has all of them 0;
\* and for every value char_count is its number of characters, word_count its
\* number of whitespace-separated tokens, each of the four ratios is taken
\* over the characters that are not spaces, and a symbol's count is taken
\* over all the characters.
C6_EndToEnd ==
    GenerateReturned =>
        LET cell(i, suffix) == ColumnOf(call.ret, call.arg.feature \o suffix)[i]
        IN  /\ (/\ call.X = Series(<<0, 1, 2>>, <<Hello, Empty, Abc123>>)
                /\ self._symbols = PyList(<<"!", "a">>))
                    => /\ cell(1, <<".char_count">>) = PyInt(12)
                       /\ cell(1, <<".word_count">>) = PyInt(2)
                       /\ IsRatio(cell(1, <<".capital_ratio">>), 2, 11)
                       /\ cell(1, <<".symbol_count.", "!">>) = PyInt(1)
                       /\ IsRatio(cell(1, <<".symbol_ratio.", "!">>), 1, 12)
                       /\ cell(2, <<".char_count">>) = PyInt(0)
                       /\ cell(2, <<".word_count">>) = PyInt(0)
                       /\ IsZero(cell(2, <<".capital_ratio">>))
                       /\ cell(2, <<".symbol_count.", "!">>) = PyInt(0)
                       /\ IsZero(cell(2, <<".symbol_ratio.", "!">>))
            /\ \A i \in 1..Len(call.X.values) :
                   LET chars == call.X.values[i].chars
                       all == 1..Len(chars)
                       kept == {j \in all : chars[j] # " "}
                       starts == {j \in all :
                                     /\ chars[j] \notin WhitespaceChars
                                     /\ j = 1 \/ chars[j - 1] \in WhitespaceChars}
                       in(set) == Cardinality({j \in kept : chars[j] \in set})
                       word == UpperChars \cup LowerChars \cup DigitChars \cup {"_"}
                   IN  /\ cell(i, <<".char_count">>) = PyInt(Len(chars))
                       /\ cell(i, <<".word_count">>) = PyInt(Cardinality(starts))
                       /\ IsRatio(cell(i, <<".capital_ratio">>),
                                  in(UpperChars), Cardinality(kept))
                       /\ IsRatio(cell(i, <<".lower_ratio">>),
                                  in(LowerChars), Cardinality(kept))
                       /\ IsRatio(cell(i, <<".digit_ratio">>),
                                  in(DigitChars), Cardinality(kept))
                       /\ IsRatio(cell(i, <<".special_ratio">>),
                                  Cardinality(kept) - in(word), Cardinality(kept))
                       /\ \A k \in 1..Len(self._symbols.items) :
                              LET symbol == self._symbols.items[k]
                                  count == Cardinality({j \in all : chars[j] = symbol})
                              IN  /\ cell(i, <<".symbol_count.", symbol>>) = PyInt(count)
                                  /\ IsRatio(cell(i, <<".symbol_ratio.", symbol>>),
                                             count, Len(chars))

\* The example has gone through the symbols ['!', 'a'].
C6_Witness ==
    /\ GenerateReturned
    /\ call.X = Series(<<0, 1, 2>>, <<Hello, Empty, Abc123>>)
    /\ self._symbols = PyList(<<"!", "a">>)
    /\ Len(call.ret.columns) = 10

\* C7. Construction: the constructor call returns a generator that is Unfit,
\* whose features_in is the list given, whose symbols are the list given or
\* the sixteen defaults, and whose features_out and metadata are unset.
C7_Construction ==
    call.op = "__init__" =>
        /\ call.raised = ""
        /\ self.type = "TextSpecialFeatureGenerator"
        /\ ~self._is_fit
        /\ self.features_in = features_in_arg
        /\ self._symbols = IF call.X.symbols = PyNone THEN PyList(DefaultSymbols)
                           ELSE call.X.symbols
        /\ Len(DefaultSymbols) = 16
        /\ self.features_out = PyNone
        /\ self.feature_types_metadata = PyNone

\* X restricted to the columns `names`, in the order of `names`.
Restrict(X, names) ==
    DataFrame(names, X.index, [i \in 1..Len(names) |-> ColumnOf(X, names[i])])
HasColumns(X, names) ==
    \A i \in 1..Len(names) : \E c \in 1..Len(X.columns) : X.columns[c] = names[i]

\* What C8 says of transform: the delegated step is handed the table
\* restricted to features_in, and a table that agrees on those columns
\* gives the same output.
TransformSelects ==
    TransformReturned =>
        /\ call.arg = Restrict(call.X, self.features_in.items)
        /\ \A T \in Tables :
               (/\ HasColumns(T, self.features_in.items)
                /\ Restrict(T, self.features_in.items) = call.arg)
                    => TransformOutcome(self, T).ret = call.ret

\* C8 as stated: a fit_transform(T) that completes leaves features_in the
\* columns of T when no list was configured and the configured list
\* otherwise; features_in never changes afterwards; and transform hands the
\* step the table restricted to it.
C8_InputColumns_Original ==
    /\ [][(~self._is_fit /\ call'.op = "fit_transform" /\ call'.raised = "")
            => self'.features_in = IF features_in_arg = PyNone
                                   THEN Columns(call'.X) ELSE features_in_arg]_vars
    /\ [][self._is_fit => self'.features_in = self.features_in]_vars
    /\ []TransformSelects

\* C8 amended: a fit_transform(T) on a generator that is not fit sets
\* features_in to the columns of T when features_in is unset at the call,
\* whether or not the call then completes, and leaves a features_in that is
\* set (configured, or kept from a fit_transform that failed) as it is;
\* features_in never changes once fit; and transform hands the step the
\* table restricted to it.
C8_InputColumns ==
    /\ [][(~self._is_fit /\ call'.op = "fit_transform")
            => self'.features_in = IF self.features_in = PyNone
                                   THEN Columns(call'.X) ELSE self.features_in]_vars
    /\ [][self._is_fit => self'.features_in = self.features_in]_vars
    /\ [](features_in_arg # PyNone => self.features_in = features_in_arg)
    /\ []TransformSelects

\* A generator configured without features_in has completed a fit_transform
\* of a table whose columns are not its features_in, and transformed since.
C8_Witness ==
    /\ TransformReturned
    /\ features_in_arg = PyNone
    /\ self.features_in # Columns(fit_call.X)
    /\ Len(call.X.columns) > Len(self.features_in.items)

\* The special type groups of the metadata have the one category `label`,
\* whose members are the output columns of the fit.
SpecialGroups(label) ==
    /\ DOMAIN self.feature_types_metadata.feature_types_special = {label}
    /\ self.feature_types_metadata.feature_types_special[label]
            = PyList(fit_call.ret.columns)

\* What C9 says besides the label: transform(T) returns the table
\* fit_transform(T) returned, and features_out is that table's column list.
FitEqualsTransform ==
    /\ (TransformReturned /\ call.X = fit_call.X) => call.ret = fit_call.ret
    /\ FitTransformReturned => fit_call = [X |-> call.X, ret |-> call.ret]
    /\ self._is_fit => self.features_out = PyList(fit_call.ret.columns)

\* C9 as stated: with the single category "text special".
C9_FitEqualsTransform_Original ==
    /\ FitEqualsTransform
    /\ self._is_fit => SpecialGroups("text special")

\* C9 amended: with the single category S_TEXT_SPECIAL, 'text_special'.
C9_FitEqualsTransform ==
    /\ FitEqualsTransform
    /\ self._is_fit => SpecialGroups("text_special")

\* The table that was fit has been transformed, into as many columns as
\* features_out names.
C9_Witness ==
    /\ TransformReturned
    /\ call.X = fit_call.X
    /\ Len(call.ret.columns) > 0
    /\ self.features_out = PyList(call.ret.columns)

\* C10. Failed fit: a fit_transform that raises on a generator that is not
\* fit leaves it not fit with features_out and the metadata unset; it keeps
\* the features_in it inferred when none was set; after it every transform
\* raises the not-fit error and no fit_transform raises the already-fit
\* error; and the next fit_transform hands the step its table restricted to
\* the features_in kept.
C10_FailedFit ==
    [][(~self._is_fit /\ call'.op = "fit_transform" /\ call'.raised # "")
        => /\ ~self'._is_fit
           /\ self'.features_out = PyNone
           /\ self'.feature_types_metadata = PyNone
           /\ self'.features_in = IF self.features_in = PyNone
                                  THEN Columns(call'.X) ELSE self.features_in
           /\ \A T \in Tables : TransformOutcome(self', T).raised = NotFit
           /\ \A T2 \in Tables :
                  LET next == FitOutcome(self', T2)
                  IN  /\ next.raised # AlreadyFit
                      /\ next.arg # PyNone
                            => next.arg = Restrict(T2, self'.features_in.items)
                      /\ next.raised = ""
                            => FitEffect(self', T2).features_in = self'.features_in]_vars

\* A fit_transform of a generator configured without features_in has failed
\* and left the columns of its table as features_in.
C10_Witness ==
    /\ call.op = "fit_transform"
    /\ call.raised = "TypeError"
    /\ ~self._is_fit
    /\ features_in_arg = PyNone
    /\ self.features_in = Columns(call.X)
    /\ \E T2 \in Tables :
           /\ FitOutcome(self, T2).raised = ""
           /\ Columns(T2) # self.features_in

====
